---- MODULE Spec2Model ----
(***************************************************************************)
(* Model of the Mumble voice-journal backend: the audio ingest handler     *)
(* create_journal (save, transcribe, analyse, polish, persist), the shared *)
(* analysis cache with its keyword fallback, and the delete handlers with  *)
(* the ORM cascades.                                                       *)
(*                                                                         *)
(* Text is a sequence of one-character strings, so that str.lower,         *)
(* str.strip and the substring test `kw in lower` are computed as Python   *)
(* computes them.  Scores are kept in hundredths (0.25 is 25).             *)
(***************************************************************************)
EXTENDS Integers, Sequences, FiniteSets, TLC

\* ------------------------------------------------------------------ text

\* U+2013, the dash of the placeholder transcript
EnDash == "endash"

UpperChars == <<"A","B","C","D","E","F","G","H","I","J","K","L","M",
                "N","O","P","Q","R","S","T","U","V","W","X","Y","Z">>
LowerChars == <<"a","b","c","d","e","f","g","h","i","j","k","l","m",
                "n","o","p","q","r","s","t","u","v","w","x","y","z">>

\* str.lower on one character
LowerChar(c) ==
  IF \E i \in 1..Len(UpperChars) : UpperChars[i] = c
    THEN LowerChars[CHOOSE i \in 1..Len(UpperChars) : UpperChars[i] = c]
    ELSE c

\* str.lower
Lower(s) == [i \in 1..Len(s) |-> LowerChar(s[i])]

\* characters str.strip removes
Whitespace == {" ", "\t", "\n", "\r"}

\* str.strip: drop leading and trailing whitespace
Strip(s) ==
  LET idx == {i \in 1..Len(s) : s[i] \notin Whitespace}
  IN  IF idx = {} THEN <<>>
      ELSE LET lo == CHOOSE i \in idx : \A j \in idx : i <= j
               hi == CHOOSE i \in idx : \A j \in idx : j <= i
           IN  SubSeq(s, lo, hi)

\* Python `kw in s` for strings: kw occurs as a substring of s
Contains(s, kw) ==
  \E i \in 0..(Len(s) - Len(kw)) : SubSeq(s, i + 1, i + Len(kw)) = kw

\* ------------------------------------------------- heuristic (fallback)

_FALLBACK_MOODS ==
  <<
     [name |-> "happy", kws |-> <<
        <<"h", "a", "p", "p", "y">>,
        <<"j", "o", "y">>,
        <<"g", "l", "a", "d">>,
        <<"e", "x", "c", "i", "t", "e", "d">>>>],
     [name |-> "sad", kws |-> <<
        <<"s", "a", "d">>,
        <<"d", "o", "w", "n">>,
        <<"u", "n", "h", "a", "p", "p", "y">>,
        <<"d", "e", "p", "r", "e", "s", "s", "e", "d">>>>],
     [name |-> "angry", kws |-> <<
        <<"a", "n", "g", "r", "y">>,
        <<"m", "a", "d">>,
        <<"f", "u", "r", "i", "o", "u", "s">>>>],
     [name |-> "anxious", kws |-> <<
        <<"a", "n", "x", "i", "o", "u", "s">>,
        <<"n", "e", "r", "v", "o", "u", "s">>,
        <<"w", "o", "r", "r", "i", "e", "d">>>>]
  >>

_FALLBACK_TOPICS ==
  <<
     [name |-> "work", kws |-> <<
        <<"w", "o", "r", "k">>,
        <<"o", "f", "f", "i", "c", "e">>,
        <<"p", "r", "o", "j", "e", "c", "t">>,
        <<"m", "e", "e", "t", "i", "n", "g">>>>],
     [name |-> "family", kws |-> <<
        <<"f", "a", "m", "i", "l", "y">>,
        <<"m", "o", "m">>,
        <<"d", "a", "d">>,
        <<"s", "i", "s", "t", "e", "r">>,
        <<"b", "r", "o", "t", "h", "e", "r">>,
        <<"k", "i", "d", "s">>>>],
     [name |-> "health", kws |-> <<
        <<"h", "e", "a", "l", "t", "h">>,
        <<"e", "x", "e", "r", "c", "i", "s", "e">>,
        <<"d", "i", "e", "t">>,
        <<"d", "o", "c", "t", "o", "r">>>>]
  >>

\* sum(1 for kw in kws if kw in lower)
MatchCount(kws, lower) == Cardinality({i \in 1..Len(kws) : Contains(lower, kws[i])})

\* round(count / len(kws), 2), in hundredths
Round2(count, n) == (200 * count + n) \div (2 * n)

\* one tag dict {"name": ..., "confidence"/"relevance": ...}
Tag(name, score) ==
  [k |-> "obj", hasName |-> TRUE, name |-> name, hasScore |-> TRUE, score |-> score]

\* a JSON array / Python list of tag values
JList(items) == [k |-> "list", items |-> items]

\* variant of the loop that appends every label of the table
RECURSIVE ScoreTable_all(_, _, _)
ScoreTable_all(table, lower, i) ==
  IF i > Len(table) THEN <<>>
  ELSE <<Tag(table[i].name, Round2(MatchCount(table[i].kws, lower), Len(table[i].kws)))>>
         \o ScoreTable_all(table, lower, i + 1)

\* the loop of _keyword_fallback over one table: labels in table order,
\* a label is appended when its score is non-zero
RECURSIVE ScoreTable(_, _, _)
ScoreTable(table, lower, i) ==
  IF i > Len(table) THEN <<>>
  ELSE LET count == MatchCount(table[i].kws, lower)
           rest  == ScoreTable(table, lower, i + 1)
       IN  IF count # 0
             THEN <<Tag(table[i].name, Round2(count, Len(table[i].kws)))>> \o rest
             ELSE rest

\* _keyword_fallback(text) -> (moods, topics)
_keyword_fallback(text) ==
  LET lower == Lower(text)
  IN  <<JList(ScoreTable(_FALLBACK_MOODS, lower, 1)),
        JList(ScoreTable(_FALLBACK_TOPICS, lower, 1))>>

\* ------------------------------------------------------- bounds, inputs

\* pieces an argument of _keyword_fallback is put together from
MaxPieces == 2

\* segments after the root in the path of a request to the first server
MaxSegments == 2

\* the scenario sentence of the keyword heuristic
HappyJob ==
  <<"I", " ", "a", "m", " ", "s", "o", " ", "h", "a", "p", "p", "y", " ",
    "a", "b", "o", "u", "t", " ", "m", "y", " ", "n", "e", "w", " ", "j", "o", "b">>

\* pieces of text: the scenario sentence and words in either case
Pieces ==
  { HappyJob,
    <<" ", "U", "n", "h", "a", "p", "p", "y">>,
    <<" ", "S", "A", "D">>,
    <<" ", "d", "a", "d">>,
    <<" ", "m", "a", "d">>,
    <<" ", "w", "o", "r", "k">>,
    <<" ", "d", "i", "e", "t">> }

\* uploads accepted before the model stops taking new ones
MaxRequests == 2

\* concurrent request slots of the server
Reqs == {1, 2}

\* identities carried by issued JWTs
Users == {1, 2}

\* secure_filename results joined to UPLOAD_FOLDER
FilePaths == {"uploads/a.wav"}

\* uploaded recordings
Audios == {1, 2}

\* result["text"] of the speech model for each recording
WhisperText(a) ==
  IF a = 1 THEN <<" ", "M", "a", "d", " ", "d", "a", "d", " ">>
           ELSE <<"U", "n", "h", "a", "p", "p", "y">>

\* the dummy transcript of transcribe_audio
Placeholder ==
  <<"(", "T", "r", "a", "n", "s", "c", "r", "i", "p", "t", "i", "o", "n", " ",
    "u", "n", "a", "v", "a", "i", "l", "a", "b", "l", "e", " ", EnDash, " ",
    "i", "n", "s", "t", "a", "l", "l", " ", "t", "h", "e", " ", "'", "w", "h",
    "i", "s", "p", "e", "r", "'", " ", "p", "a", "c", "k", "a", "g", "e", ")">>

\* completions the rewrite request can return (choices[0].text)
PolishOutputs == { <<" ", "F", "i", "n", "e", ".", " ">> }

NoText == <<>>

\* a tag value without a "name" key
NoNameItem ==
  [k |-> "obj", hasName |-> FALSE, name |-> "", hasScore |-> TRUE, score |-> 90]

\* a tag value with a name and no score key
NameOnly(name) ==
  [k |-> "obj", hasName |-> TRUE, name |-> name, hasScore |-> FALSE, score |-> 0]

NoList == [k |-> "none", items |-> <<>>]

\* what the chat completion can come back with
AnalysisResponses ==
  { [kind |-> "raise",     hasMoods |-> FALSE, moods |-> NoList, hasTopics |-> FALSE, topics |-> NoList],
    [kind |-> "notjson",   hasMoods |-> FALSE, moods |-> NoList, hasTopics |-> FALSE, topics |-> NoList],
    [kind |-> "nonobject", hasMoods |-> FALSE, moods |-> NoList, hasTopics |-> FALSE, topics |-> NoList],
    [kind |-> "object", hasMoods |-> TRUE, moods |-> JList(<<Tag("calm", 90)>>),
                        hasTopics |-> TRUE, topics |-> JList(<<NameOnly("travel")>>)],
    [kind |-> "object", hasMoods |-> TRUE, moods |-> JList(<<NoNameItem>>),
                        hasTopics |-> TRUE, topics |-> JList(<<>>)],
    [kind |-> "object", hasMoods |-> TRUE, moods |-> JList(<<Tag("calm", 150)>>),
                        hasTopics |-> TRUE, topics |-> JList(<<Tag("travel", 0 - 20)>>)] }

\* --------------------------------------------------------------- state

VARIABLES
  apiConfigured,   \* OPENAI_API_KEY set and the openai package importable
  whisperInstalled,\* the whisper package importable
  users,           \* ids of the rows of table users
  journals,        \* rows of table journals
  moodRows,        \* rows of table journal_moods
  topicRows,       \* rows of table journal_topics
  nextId,          \* next journals.id
  started,         \* uploads accepted so far
  files,           \* upload folder: path -> recording stored there
  cache,           \* _analyses_cache: transcript -> (moods, topics)
  remoteOk,        \* history: transcripts whose remote analysis has succeeded
  req,             \* per request slot: position in create_journal and its locals
  call,            \* last direct call of extract_moods / extract_topics
  first,           \* history: text -> pair returned by the first analysis of it
  heur,            \* direct use of _keyword_fallback: argument and return value
  userCols,        \* table users: id -> columns of the row (rows are the ids in users)
  authResp,        \* last request to the auth routes and its answer
  upd,             \* per identity: the profile update waiting for its commit
  hook             \* request met by the before-request hook of the first server

vars == <<apiConfigured, whisperInstalled, users, journals,
          moodRows, topicRows, nextId, started, files, cache, remoteOk, req,
          call, first, heur, userCols, authResp, upd, hook>>

\* what no step of create_journal and of the journal routes writes
env == <<apiConfigured, whisperInstalled, call, first, heur, userCols, authResp, upd,
        hook>>
old == <<env, started>>
db  == <<users, journals, moodRows, topicRows, nextId>>

IdleReq ==
  [pc |-> "idle", file |-> "", transcript |-> NoText,
   moods |-> NoList, topics |-> NoList, srcM |-> "none", srcT |-> "none",
   polished |-> NoText, nAnalysis |-> 0, nPolish |-> 0,
   status |-> 0, jid |-> 0, error |-> ""]

\* no password hash (account made by the Google callback)
NoHash == [set |-> FALSE, of |-> <<>>]

\* columns of the row the Google callback made for the account with id u
GoogleCols(u) ==
  IF u = 1
    THEN [username |-> <<"a">>, email |-> <<"a", "@", "b", ".", "c", "o">>,
          password_hash |-> NoHash, oauth_id |-> "g1"]
    ELSE [username |-> <<"c">>, email |-> <<"c", "@", "b", ".", "c", "o">>,
          password_hash |-> NoHash, oauth_id |-> "g2"]

\* generate_password_hash(password): a hash only that password verifies against
Hash(password) == [set |-> TRUE, of |-> password]

\* user.check_password(password): check_password_hash(self.password_hash,
\* password) raises AttributeError when the hash is None
check_password(hash, password) ==
  [raised |-> ~hash.set, ok |-> hash.set /\ hash.of = password]

\* columns of a row that came with a password hash (no route of the
\* application sets a first password; the row was put into the database)
SeededCols ==
  [username |-> <<"a">>, email |-> <<"a", "@", "b", ".", "c", "o">>,
   password_hash |-> Hash(<<"A", "b", "c", "d", "e", "f", "1", "!">>),
   oauth_id |-> ""]

\* a key that is not in the JSON body
Missing == <<"missing">>

\* no profile update of this identity is between its checks and its commit
NoUpd == [active |-> FALSE, row |-> GoogleCols(1), current |-> Missing]

\* no request to the auth routes yet
NoResp == [op |-> "none", username |-> <<>>, email |-> <<>>, password |-> <<>>,
           status |-> 0, error |-> "", token |-> 0]

\* the empty string is about to be handed to _keyword_fallback
NoHeur == [text |-> <<>>, pieces |-> 0, called |-> FALSE,
           moods |-> NoList, topics |-> NoList]

\* no direct call has been made
NoCall == [text |-> NoText, part |-> "none", src |-> "none",
           result |-> <<NoList, NoList>>, returned |-> NoList]

\* no request has met the hook; its path so far is the root page
NoHook == [path |-> <<"/">>, segs |-> 0, called |-> FALSE, app |-> "none",
           jwt |-> FALSE, verified |-> FALSE, status |-> 0, error |-> ""]

Init ==
  /\ apiConfigured \in BOOLEAN
  /\ whisperInstalled \in BOOLEAN
  /\ users = Users
  /\ journals = {}
  /\ moodRows = {}
  /\ topicRows = {}
  /\ nextId = 1
  /\ started = 0
  /\ files = <<>>
  /\ cache = <<>>
  /\ remoteOk = {}
  /\ req = [r \in Reqs |-> IdleReq]
  /\ call = NoCall
  /\ first = <<>>
  /\ heur = NoHeur
  /\ userCols = [u \in Users |-> IF u = 1 THEN SeededCols ELSE GoogleCols(u)]
  /\ authResp = NoResp
  /\ upd = [u \in Users |-> NoUpd]
  /\ hook = NoHook

\* f with key k set to v
Put(f, k, v) == [x \in DOMAIN f \cup {k} |-> IF x = k THEN v ELSE f[x]]

\* f without key k
Drop(f, k) == [x \in DOMAIN f \ {k} |-> f[x]]


\* ------------------------------------------------------ pure functions

\* variant of transcribe_audio that raises when whisper is missing
transcribe_audio_abort(installed, loads, present, audio) ==
  IF ~installed \/ ~loads \/ ~present THEN [raised |-> TRUE, text |-> NoText]
  ELSE [raised |-> FALSE, text |-> Strip(WhisperText(audio))]

\* transcribe_audio(file_path): the placeholder without whisper, else the
\* stripped text of the recording at file_path, or an exception
transcribe_audio(installed, loads, present, audio) ==
  IF ~installed THEN [raised |-> FALSE, text |-> Placeholder]
  ELSE IF ~loads \/ ~present THEN [raised |-> TRUE, text |-> NoText]
  ELSE [raised |-> FALSE, text |-> Strip(WhisperText(audio))]

\* _call_openai_analysis after the configuration check: response.choices[0]
\* .message.content parsed by json.loads, then data.get("moods", []) and
\* data.get("topics", []); every exception leaves through `raised`
_call_openai_analysis(resp) ==
  IF resp.kind = "object"
    THEN [raised |-> FALSE,
          moods  |-> IF resp.hasMoods THEN resp.moods ELSE JList(<<>>),
          topics |-> IF resp.hasTopics THEN resp.topics ELSE JList(<<>>)]
    ELSE [raised |-> TRUE, moods |-> NoList, topics |-> NoList]

\* outcome of _call_openai_analysis when the key or the package is missing
NotConfigured == [raised |-> TRUE, moods |-> NoList, topics |-> NoList]

\* variant of the lookup that never finds a key
CacheHit_never(c, text) == FALSE

\* `text in _analyses_cache`
CacheHit(c, text) == text \in DOMAIN c

\* every transcript transcribe_audio can return
Transcripts == {Placeholder} \cup {Strip(WhisperText(a)) : a \in Audios}

\* texts handed to extract_moods / extract_topics directly: equal up to
\* letter case and surrounding whitespace
AnalyseTexts ==
  { <<"M", "a", "d">>, <<"m", "a", "d">>,
    <<" ", "m", "a", "d">>, <<"m", "a", "d", " ">> }

\* _keyword_fallback tabulated over the texts that are analysed
FallbackOf == [t \in Transcripts \cup AnalyseTexts |-> _keyword_fallback(t)]

\* variant of the except branch that gives up with empty lists
AnalyseResult_empty(text, outcome) ==
  IF outcome.raised THEN <<JList(<<>>), JList(<<>>)>>
  ELSE <<outcome.moods, outcome.topics>>

\* the try/except of _analyse: the remote pair, or the keyword fallback
AnalyseResult(text, outcome) ==
  IF outcome.raised THEN FallbackOf[text]
  ELSE <<outcome.moods, outcome.topics>>

\* variant of the store that keeps nothing
CacheStore_skip(c, text, result) == c

\* variant of the store that writes the two halves separately and loses the
\* second write when the key is already there
CacheStore_torn(c, text, result) ==
  IF text \in DOMAIN c THEN Put(c, text, <<result[1], c[text][2]>>)
  ELSE Put(c, text, result)

\* variant of the store that keeps the moods only
CacheStore_moodsOnly(c, text, result) == Put(c, text, <<result[1], JList(<<>>)>>)

\* variant of the store that writes the pair in the other order
CacheStore_swapped(c, text, result) == Put(c, text, <<result[2], result[1]>>)

\* variant of the store that normalises the key
CacheStore_lower(c, text, result) == Put(c, Strip(Lower(text)), result)

\* variant of the store that keeps the latest pair only
CacheStore_latestOnly(c, text, result) == Put(<<>>, text, result)

\* `_analyses_cache[text] = (moods, topics)`
CacheStore(c, text, result) == Put(c, text, result)

\* polish_text without a configured key
PolishLocal(text) == Strip(text)

\* polish_text with a key: response.choices[0].text.strip()
PolishRemote(out) == Strip(out)

\* the loops of create_journal that build the tag rows raise when the value
\* is not a list, or an element is not a dict, or has no "name"
TagsRaise(v) ==
  \/ v.k # "list"
  \/ \E i \in 1..Len(v.items) : v.items[i].k # "obj" \/ ~v.items[i].hasName

\* variant of the tag loops that adds no row
TagRows_none(v, jid) == {}

\* rows added for one tag list of journal jid
TagRows(v, jid) ==
  { [journal_id |-> jid, idx |-> i, name |-> v.items[i].name,
     hasScore |-> v.items[i].hasScore, score |-> v.items[i].score]
    : i \in 1..Len(v.items) }

\* -------------------------------------------------------------- actions

\* the except branch of create_journal: rollback, answer 500; the locals
\* of the handler are gone once it has returned
Fail(r) ==
  req' = [req EXCEPT ![r] = [IdleReq EXCEPT !.pc = "done", !.status = 500]]

\* a slot is free before its first request and after it has answered; it
\* keeps the last answer until the next request arrives
Free(r) == req[r].pc \in {"idle", "done"}

\* create_journal up to audio_file.save(filepath), for a valid request; the
\* server hands the request to its first free slot
create_journal_save(r, f, a) ==
  /\ Free(r)
  /\ \A q \in Reqs : q < r => ~Free(q)
  /\ started < MaxRequests
  /\ started' = started + 1
  /\ files' = Put(files, f, a)
  /\ req' = [req EXCEPT ![r] = [IdleReq EXCEPT !.pc = "received", !.file = f]]
  /\ UNCHANGED <<env, db, cache, remoteOk>>

\* transcript = transcribe_audio(filepath)
create_journal_transcribe(r, loads) ==
  /\ req[r].pc = "received"
  /\ LET f   == req[r].file
         out == transcribe_audio(whisperInstalled, loads, f \in DOMAIN files,
                                 IF f \in DOMAIN files THEN files[f] ELSE 1)
     IN  IF out.raised THEN Fail(r)
         ELSE req' = [req EXCEPT ![r].pc = "transcribed", ![r].transcript = out.text]
  /\ UNCHANGED <<old, db, files, cache, remoteOk>>

\* the request is in extract_moods (TRUE) or extract_topics (FALSE)
MoodPhase(r) == req[r].pc \in {"transcribed", "moods_wait"}

\* req[r] after the running extract_* call returned `result` taken from src
Extracted(r, result, src) ==
  IF MoodPhase(r)
    THEN [req[r] EXCEPT !.pc = "moods_done", !.moods = result[1], !.srcM = src]
    ELSE [req[r] EXCEPT !.pc = "analyzed", !.topics = result[2], !.srcT = src]

\* extract_moods / extract_topics entering _analyse: cache lookup, and on a
\* miss either the immediate RuntimeError without configuration or the
\* chat completion request being sent
extract_begin(r) ==
  /\ req[r].pc \in {"transcribed", "moods_done"}
  /\ LET text == req[r].transcript IN
       IF CacheHit(cache, text)
         THEN /\ req' = [req EXCEPT ![r] = Extracted(r, cache[text], "cache")]
              /\ UNCHANGED cache
       ELSE IF ~apiConfigured
         THEN LET result == AnalyseResult(text, NotConfigured) IN
              /\ cache' = CacheStore(cache, text, result)
              /\ req' = [req EXCEPT ![r] = Extracted(r, result, "heuristic")]
       ELSE /\ req' = [req EXCEPT ![r].pc = IF MoodPhase(r) THEN "moods_wait" ELSE "topics_wait",
                                  ![r].nAnalysis = @ + 1]
            /\ UNCHANGED cache
  /\ UNCHANGED <<old, db, files, remoteOk>>

\* the chat completion comes back (or raises); rest of _analyse
extract_end(r, resp) ==
  /\ req[r].pc \in {"moods_wait", "topics_wait"}
  /\ LET text    == req[r].transcript
         outcome == _call_openai_analysis(resp)
         result  == AnalyseResult(text, outcome)
     IN  /\ cache' = CacheStore(cache, text, result)
         /\ remoteOk' = IF outcome.raised THEN remoteOk ELSE remoteOk \cup {text}
         /\ req' = [req EXCEPT ![r] =
                      Extracted(r, result, IF outcome.raised THEN "heuristic" ELSE "remote")]
  /\ UNCHANGED <<old, db, files>>

\* polish_text: local strip without a key, else the completion request
polish_begin(r) ==
  /\ req[r].pc = "analyzed"
  /\ IF ~apiConfigured
       THEN req' = [req EXCEPT ![r].pc = "polished",
                               ![r].polished = PolishLocal(req[r].transcript)]
       ELSE req' = [req EXCEPT ![r].pc = "polish_wait", ![r].nPolish = @ + 1]
  /\ UNCHANGED <<old, db, files, cache, remoteOk>>

\* the completion comes back, or openai.Completion.create raises
polish_end(r, ok, out) ==
  /\ req[r].pc = "polish_wait"
  /\ IF ok
       THEN req' = [req EXCEPT ![r].pc = "polished", ![r].polished = PolishRemote(out)]
       ELSE Fail(r)
  /\ UNCHANGED <<old, db, files, cache, remoteOk>>

\* Journal(...), flush, the two tag loops, commit, 201.  commitOk = FALSE
\* is any database error, among them the foreign-key error of a database
\* that enforces journals.user_id (SQLite does not unless told to); u is
\* get_jwt_identity(), the identity of the request's token, first read here
create_journal_persist(r, u, commitOk) ==
  /\ req[r].pc = "polished"
  /\ IF TagsRaise(req[r].moods) \/ TagsRaise(req[r].topics)
       THEN Fail(r) /\ UNCHANGED db
     ELSE IF ~commitOk
       THEN Fail(r) /\ UNCHANGED db
     ELSE /\ journals' = journals \cup
                {[id |-> nextId, user_id |-> u,
                  content |-> req[r].polished, audio_path |-> req[r].file]}
          /\ moodRows' = moodRows \cup TagRows(req[r].moods, nextId)
          /\ topicRows' = topicRows \cup TagRows(req[r].topics, nextId)
          /\ nextId' = nextId + 1
          /\ users' = users
          /\ req' = [req EXCEPT ![r] = [IdleReq EXCEPT !.pc = "done", !.status = 201,
                                   !.jid = nextId]]
  /\ UNCHANGED <<old, files, cache, remoteOk>>

\* variant of the query that filters by id only
FindJournal_anyUser(u, id) == {j \in journals : j.id = id}

\* Journal.query.filter_by(id=journal_id, user_id=user_id).first(): the set
\* is empty or holds the one row with that primary key
FindJournal(u, id) == {j \in journals : j.id = id /\ j.user_id = u}

\* the body and status of the 404 answer of get_journal and delete_journal
NotFound == [status |-> 404, error |-> "Journal not found", journals |-> {}]

\* journal.to_dict(): the row with its moods and topics
to_dict(j) ==
  [journal |-> j,
   moods   |-> {m \in moodRows : m.journal_id = j.id},
   topics  |-> {t \in topicRows : t.journal_id = j.id}]

\* get_journals for the identity u of the token, all pages together
get_journals(u) ==
  [status |-> 200, error |-> "",
   journals |-> {to_dict(j) : j \in {x \in journals : x.user_id = u}}]

\* get_journal(journal_id) for the identity u of the token
get_journal(u, id) ==
  IF FindJournal(u, id) = {} THEN NotFound
  ELSE [status |-> 200, error |-> "",
        journals |-> {to_dict(j) : j \in FindJournal(u, id)}]

\* the answer of delete_journal(journal_id) for the identity u of the token
delete_journal_response(u, id, commitOk) ==
  IF FindJournal(u, id) = {} THEN NotFound
  ELSE IF commitOk THEN [status |-> 200, error |-> "", journals |-> {}]
  ELSE [status |-> 500, error |-> "Failed to delete journal entry", journals |-> {}]

\* delete_journal(journal_id) by user u: 404 without a row of that id owned
\* by u, else the file is removed before the commit
delete_journal(u, id, commitOk) ==
  IF FindJournal(u, id) = {} THEN UNCHANGED vars
  ELSE LET j == CHOOSE x \in FindJournal(u, id) : TRUE IN
    /\ files' = IF j.audio_path \in DOMAIN files THEN Drop(files, j.audio_path) ELSE files
    /\ IF commitOk
         THEN /\ journals' = journals \ {j}
              /\ moodRows' = {m \in moodRows : m.journal_id # j.id}
              /\ topicRows' = {t \in topicRows : t.journal_id # j.id}
         ELSE UNCHANGED <<journals, moodRows, topicRows>>
    /\ UNCHANGED <<old, users, nextId, cache, remoteOk, req>>

\* delete_current_user_account with a verified password and a commit that
\* succeeds: the ORM cascades to the user's journals and their tags
delete_current_user_account(u) ==
  /\ u \in users
  /\ check_password(userCols[u].password_hash, userCols[u].password_hash.of).ok
  /\ users' = users \ {u}
  /\ LET gone == {j.id : j \in {x \in journals : x.user_id = u}} IN
       /\ journals' = {j \in journals : j.user_id # u}
       /\ moodRows' = {m \in moodRows : m.journal_id \notin gone}
       /\ topicRows' = {t \in topicRows : t.journal_id \notin gone}
  /\ UNCHANGED <<old, nextId, files, cache, remoteOk, req>>

Next ==
  \/ \E r \in Reqs, f \in FilePaths, a \in Audios : create_journal_save(r, f, a)
  \/ \E r \in Reqs, loads \in BOOLEAN : create_journal_transcribe(r, loads)
  \/ \E r \in Reqs : extract_begin(r)
  \/ \E r \in Reqs, resp \in AnalysisResponses : extract_end(r, resp)
  \/ \E r \in Reqs : polish_begin(r)
  \/ \E r \in Reqs, ok \in BOOLEAN, out \in PolishOutputs : polish_end(r, ok, out)
  \/ \E r \in Reqs, u \in Users, commitOk \in BOOLEAN : create_journal_persist(r, u, commitOk)
  \/ \E j \in journals, commitOk \in BOOLEAN : delete_journal(j.user_id, j.id, commitOk)
  \/ \E u \in Users : delete_current_user_account(u)

Spec == Init /\ [][Next]_vars

\* ------------------------------------------------------------ register

\* \w of the regular expressions, for the characters that are used
Digits == {"0", "1", "2", "3", "4", "5", "6", "7", "8", "9"}
UpperSet == {UpperChars[i] : i \in 1..Len(UpperChars)}
LowerSet == {LowerChars[i] : i \in 1..Len(LowerChars)}
WordChars == UpperSet \cup LowerSet \cup Digits \cup {"_"}

\* the specials of validate_password
SpecialChars ==
  {"!", "@", "#", "$", "%", "^", "&", "*", "(", ")", ",", ".", "?", "\"",
   ":", "{", "}", "|", "<", ">"}

\* EMAIL_REGEX.match(email) for ^[\w\.-]+@[\w\.-]+\.\w+$
EMAIL_REGEX(email) ==
  \E at \in 2..Len(email) : \E dot \in (at + 2)..(Len(email) - 1) :
    /\ email[at] = "@"
    /\ email[dot] = "."
    /\ \A p \in 1..(at - 1) : email[p] \in WordChars \cup {".", "-"}
    /\ \A p \in (at + 1)..(dot - 1) : email[p] \in WordChars \cup {".", "-"}
    /\ \A p \in (dot + 1)..Len(email) : email[p] \in WordChars

\* validate_email(email) -> (is_valid, error_message)
validate_email(email) ==
  IF email = <<>> THEN <<FALSE, "Email is required">>
  ELSE IF ~EMAIL_REGEX(email) THEN <<FALSE, "Invalid email format">>
  ELSE <<TRUE, "">>

\* validate_password(password) -> (is_valid, error_message)
validate_password(password) ==
  LET has(S) == \E p \in 1..Len(password) : password[p] \in S IN
  IF password = <<>> THEN <<FALSE, "Password is required">>
  ELSE IF Len(password) < 8
    THEN <<FALSE, "Password must be at least 8 characters long">>
  ELSE IF ~has(UpperSet)
    THEN <<FALSE, "Password must contain an uppercase letter">>
  ELSE IF ~has(LowerSet)
    THEN <<FALSE, "Password must contain a lowercase letter">>
  ELSE IF ~has(Digits)
    THEN <<FALSE, "Password must contain a digit">>
  ELSE IF ~has(SpecialChars)
    THEN <<FALSE, "Password must contain a special character">>
  ELSE <<TRUE, "">>

\* truth value of a tuple in `if not <tuple>`: a tuple is false only when empty
Truthy(tuple) == Len(tuple) # 0

\* attributes of class User a keyword argument of its constructor may name
UserAttrs ==
  {"id", "username", "email", "password_hash", "created_at", "is_active",
   "is_admin", "oauth_provider", "oauth_id", "picture", "journals"}

\* User(**kwargs): super().__init__(**kwargs) is the declarative constructor,
\* which raises TypeError for a keyword that is no attribute of the class;
\* set_password runs only after it returned
User(kwargs) ==
  IF \E k \in DOMAIN kwargs : k \notin UserAttrs
    THEN [raised |-> TRUE, cols |-> GoogleCols(1)]
    ELSE [raised |-> FALSE,
          cols |-> [username |-> kwargs.username, email |-> kwargs.email,
                    password_hash |-> NoHash, oauth_id |-> ""]]

\* usernames, emails and passwords sent to register
Usernames == { <<"a">>, <<"z">> }
Emails ==
  { <<"a", "@", "b", ".", "c", "o">>, <<"z", "@", "b", ".", "c", "o">>,
    <<"n", "o", "p", "e">>, <<"z", "@", "b">> }
Passwords ==
  { <<"A", "b", "c", "d", "e", "f", "1", "!">>, <<"s", "h", "o", "r", "t">>,
    <<"a", "b", "c", "d", "e", "f", "g", "h", "1">> }

\* the answer of register, with the request it answers
Answer(data, status, error, token) ==
  [op |-> "register", username |-> data.username, email |-> data.email,
   password |-> data.password, status |-> status, error |-> error, token |-> token]

\* register: data is the JSON body, complete says whether it has the three
\* keys, commitOk whether db.session.commit() succeeds
register(data, complete, commitOk) ==
  LET ctor == User(data)
      id   == IF DOMAIN userCols = {} THEN 1
              ELSE 1 + CHOOSE m \in DOMAIN userCols : \A x \in DOMAIN userCols : x <= m
  IN
  /\ IF ~complete
       THEN /\ authResp' = Answer(data, 400, "Missing required fields", 0)
            /\ UNCHANGED <<users, userCols>>
     ELSE IF ~Truthy(validate_email(data.email))
       THEN /\ authResp' = Answer(data, 400, "Invalid email format", 0)
            /\ UNCHANGED <<users, userCols>>
     ELSE IF ~Truthy(validate_password(data.password))
       THEN /\ authResp' = Answer(data, 400, "Password must be at least 8 characters long", 0)
            /\ UNCHANGED <<users, userCols>>
     ELSE IF \E u \in users : userCols[u].username = data.username
       THEN /\ authResp' = Answer(data, 409, "Username already exists", 0)
            /\ UNCHANGED <<users, userCols>>
     ELSE IF \E u \in users : userCols[u].email = data.email
       THEN /\ authResp' = Answer(data, 409, "Email already registered", 0)
            /\ UNCHANGED <<users, userCols>>
     ELSE IF ctor.raised \/ ~commitOk
       THEN /\ authResp' = Answer(data, 500, "Failed to register user", 0)
            /\ UNCHANGED <<users, userCols>>
     ELSE /\ users' = users \cup {id}
          /\ userCols' = Put(userCols, id, ctor.cols)
          /\ authResp' = Answer(data, 201, "", id)
  /\ UNCHANGED <<apiConfigured, whisperInstalled, hook, call, first, heur, started, upd,
                 journals, moodRows, topicRows, nextId, files, cache, remoteOk, req>>

\* the answer of login, with the request it answers
LoginAnswer(email, password, status, error, token) ==
  [op |-> "login", username |-> <<>>, email |-> email, password |-> password,
   status |-> status, error |-> error, token |-> token]

\* login: complete says whether the body has 'email' and 'password'; an
\* exception of check_password is handled by nobody and ends in Flask's 500
login(email, password, complete) ==
  LET found == {u \in users : userCols[u].email = email} IN
  /\ IF ~complete
       THEN authResp' = LoginAnswer(email, password, 400, "Missing email or password", 0)
     ELSE IF found = {}
       THEN authResp' = LoginAnswer(email, password, 401, "Invalid email or password", 0)
     ELSE LET u  == CHOOSE x \in found : TRUE
              cp == check_password(userCols[u].password_hash, password)
          IN  IF cp.raised
                THEN authResp' = LoginAnswer(email, password, 500, "Internal Server Error", 0)
              ELSE IF cp.ok
                THEN authResp' = LoginAnswer(email, password, 200, "", u)
              ELSE authResp' = LoginAnswer(email, password, 401, "Invalid email or password", 0)
  /\ UNCHANGED <<apiConfigured, whisperInstalled, hook, call, first, heur, started, users,
                 userCols, upd, journals, moodRows, topicRows, nextId, files, cache,
                 remoteOk, req>>

\* emails tried at login: the two accounts' and one of nobody
LoginEmails ==
  { <<"a", "@", "b", ".", "c", "o">>, <<"c", "@", "b", ".", "c", "o">>,
    <<"z", "@", "b", ".", "c", "o">> }

AuthNext ==
  \/ \E username \in Usernames, email \in Emails, password \in Passwords,
        complete \in BOOLEAN, commitOk \in BOOLEAN :
       register([username |-> username, email |-> email, password |-> password],
                complete, commitOk)
  \/ \E email \in LoginEmails, password \in Passwords, complete \in BOOLEAN :
       login(email, password, complete)

AuthSpec == Init /\ [][AuthNext]_vars

\* ------------------------------------------- update_current_user_profile

\* variant of the end of a request that flushes what the session holds
Teardown_flush(row, pending) == pending

\* the row of the user in the database after a request that returned without
\* committing: the session is removed when the request ends, which rolls
\* back what the handler assigned (and autoflushed)
Teardown(row, pending) == row

\* variant of the commit without the unique constraints
UniqueViolation_none(u, row) == FALSE

\* the UNIQUE constraints on users.username and users.email fail the
\* flush of `row` for user u
UniqueViolation(u, row) ==
  \E v \in users \ {u} :
    userCols[v].username = row.username \/ userCols[v].email = row.email

\* the answer of update_current_user_profile, with the username and email
\* the request asked for
UpdateAnswer(username, email, status, error) ==
  [op |-> "update", username |-> username, email |-> email, password |-> <<>>,
   status |-> status, error |-> error, token |-> 0]

\* update_current_user_profile for the identity u of the token, up to the
\* commit: the existence checks and the password check, each assigning to
\* the session's user object when it passes
update_begin(u, data) ==
  /\ ~upd[u].active
  /\ IF u \notin users
       THEN /\ authResp' = UpdateAnswer(data.username, data.email, 404, "User not found")
            /\ UNCHANGED <<userCols, upd>>
     ELSE
       LET user   == userCols[u]
           named  == IF data.username # Missing /\ data.username # user.username
                       THEN [user EXCEPT !.username = data.username] ELSE user
           mailed == IF data.email # Missing /\ data.email # user.email
                       THEN [named EXCEPT !.email = data.email] ELSE named
           cp     == check_password(user.password_hash, data.current_password)
           both   == data.current_password # Missing /\ data.new_password # Missing
           keyed  == IF both THEN [mailed EXCEPT !.password_hash = Hash(data.new_password)]
                     ELSE mailed
           fail(status, error, pending) ==
             /\ authResp' = UpdateAnswer(data.username, data.email, status, error)
             /\ userCols' = [userCols EXCEPT ![u] = Teardown(user, pending)]
             /\ UNCHANGED upd
       IN  IF named # user /\ \E v \in users : userCols[v].username = data.username
             THEN fail(409, "Username already exists", user)
           ELSE IF mailed # named /\ \E v \in users : userCols[v].email = data.email
             THEN fail(409, "Email already registered", named)
           ELSE IF both /\ cp.raised
             THEN fail(500, "Internal Server Error", mailed)
           ELSE IF both /\ ~cp.ok
             THEN fail(400, "Current password is incorrect", mailed)
           ELSE /\ upd' = [upd EXCEPT ![u] = [active |-> TRUE, row |-> keyed,
                                               current |-> IF both THEN data.current_password
                                                           ELSE Missing]]
                /\ UNCHANGED <<userCols, authResp>>
  /\ UNCHANGED <<apiConfigured, whisperInstalled, hook, call, first, heur, started, users,
                 journals, moodRows, topicRows, nextId, files, cache, remoteOk, req>>

\* db.session.commit() of update_current_user_profile and its answer: 200,
\* or rollback and 500 when the commit raises
update_commit(u, commitOk) ==
  /\ upd[u].active
  /\ IF commitOk /\ u \in users /\ ~UniqueViolation(u, upd[u].row)
       THEN /\ userCols' = [userCols EXCEPT ![u] = upd[u].row]
            /\ authResp' = UpdateAnswer(upd[u].row.username, upd[u].row.email, 200, "")
       ELSE /\ authResp' = UpdateAnswer(upd[u].row.username, upd[u].row.email, 500,
                                        "Failed to update profile")
            /\ UNCHANGED userCols
  /\ upd' = [upd EXCEPT ![u] = NoUpd]
  /\ UNCHANGED <<apiConfigured, whisperInstalled, hook, call, first, heur, started, users,
                 journals, moodRows, topicRows, nextId, files, cache, remoteOk, req>>

\* usernames, emails and (current, new) passwords sent to update
UpdNames == { Missing, <<"c">>, <<"z">> }
UpdEmails == { Missing, <<"c", "@", "b", ".", "c", "o">>, <<"z", "@", "b", ".", "c", "o">> }
UpdPasswords ==
  { <<Missing, Missing>>,
    << <<"A", "b", "c", "d", "e", "f", "1", "!">>, <<"N", "e", "w", "p", "a", "s", "s", "1", "!">> >>,
    << <<"s", "h", "o", "r", "t">>, <<"N", "e", "w", "p", "a", "s", "s", "1", "!">> >> }

\* the body of an update request
UpdData(username, email, pw) ==
  [username |-> username, email |-> email,
   current_password |-> pw[1], new_password |-> pw[2]]

\* register and update requests of the two identities, interleaved
ProfileNext ==
  \/ \E username \in Usernames, email \in LoginEmails, commitOk \in BOOLEAN :
       register([username |-> username, email |-> email,
                 password |-> <<"A", "b", "c", "d", "e", "f", "1", "!">>], TRUE, commitOk)
  \/ \E u \in Users, username \in UpdNames, email \in UpdEmails, pw \in UpdPasswords :
       update_begin(u, UpdData(username, email, pw))
  \/ \E u \in Users, commitOk \in BOOLEAN : update_commit(u, commitOk)

\* the user routes read nothing of the analysis configuration: one suffices
ProfileInit == Init /\ apiConfigured /\ whisperInstalled

ProfileSpec == ProfileInit /\ [][ProfileNext]_vars

\* ---------------------------------------- create_journal from its start

\* ALLOWED_EXTENSIONS
ALLOWED_EXTENSIONS ==
  { <<"w", "a", "v">>, <<"m", "p", "3">>, <<"m", "4", "a">>, <<"o", "g", "g">> }

\* variant of allowed_file that only asks for a dot
allowed_file_anyExtension(filename) == \E i \in 1..Len(filename) : filename[i] = "."

\* allowed_file(filename): '.' in filename and
\* filename.rsplit('.', 1)[1].lower() in ALLOWED_EXTENSIONS
allowed_file(filename) ==
  /\ \E i \in 1..Len(filename) : filename[i] = "."
  /\ LET last == CHOOSE i \in 1..Len(filename) :
                   /\ filename[i] = "."
                   /\ \A j \in (i + 1)..Len(filename) : filename[j] # "."
     IN  Lower(SubSeq(filename, last + 1, Len(filename))) \in ALLOWED_EXTENSIONS

\* titles and filenames of the multipart form
Titles == { <<>>, <<" ", "\t">>, <<" ", "T", " ">> }
Filenames ==
  { <<>>, <<"a", ".", "w", "a", "v">>, <<"A", ".", "W", "A", "V">>,
    <<"a", ".", "t", "x", "t">>, <<"w", "a", "v">>, <<"a", ".", "w", "a", "v", ".", "e", "x", "e">> }

\* os.path.join(UPLOAD_FOLDER, secure_filename(filename)) for these filenames
UploadPath(filename) ==
  IF filename = <<"a", ".", "w", "a", "v">> THEN "uploads/a.wav"
  ELSE IF filename = <<"A", ".", "W", "A", "V">> THEN "uploads/A.WAV"
  ELSE IF filename = <<"a", ".", "t", "x", "t">> THEN "uploads/a.txt"
  ELSE IF filename = <<"w", "a", "v">> THEN "uploads/wav"
  ELSE "uploads/a.wav.exe"

\* the four checks at the start of create_journal, in their order: the
\* error of the first that fails, or "" when all pass
Validate(hasAudio, title, filename) ==
  IF ~hasAudio THEN "No audio file provided"
  ELSE IF Strip(title) = <<>> THEN "Title is required"
  ELSE IF filename = <<>> THEN "No selected file"
  ELSE IF ~allowed_file(filename) THEN "File type not allowed"
  ELSE ""

\* Validate tabulated over the forms that are sent
ErrorOf ==
  [form \in BOOLEAN \X Titles \X Filenames |-> Validate(form[1], form[2], form[3])]

\* create_journal from its first line: answer 400 with the error of the first
\* failing check, or go on to save the upload
create_journal(r, hasAudio, title, filename, a) ==
  IF ErrorOf[<<hasAudio, title, filename>>] # ""
    THEN /\ Free(r)
         /\ \A q \in Reqs : q < r => ~Free(q)
         /\ req' = [req EXCEPT ![r] =
                      [IdleReq EXCEPT !.pc = "done", !.status = 400,
                                      !.error = ErrorOf[<<hasAudio, title, filename>>]]]
         /\ UNCHANGED <<env, started, db, files, cache, remoteOk>>
    ELSE create_journal_save(r, UploadPath(filename), a)

\* create_journal requests with every form, handled one after the other,
\* and deletions; one recording, its content playing no part in the checks
IngestNext ==
  \/ \E hasAudio \in BOOLEAN, title \in Titles, filename \in Filenames :
       create_journal(1, hasAudio, title, filename, 1)
  \/ \E loads \in BOOLEAN : create_journal_transcribe(1, loads)
  \/ extract_begin(1)
  \/ \E resp \in AnalysisResponses : extract_end(1, resp)
  \/ polish_begin(1)
  \/ \E ok \in BOOLEAN, out \in PolishOutputs : polish_end(1, ok, out)
  \/ \E u \in Users, commitOk \in BOOLEAN : create_journal_persist(1, u, commitOk)
  \/ \E j \in journals, commitOk \in BOOLEAN : delete_journal(j.user_id, j.id, commitOk)

\* a deployment with the key set and without the speech model
IngestInit == Init /\ apiConfigured /\ ~whisperInstalled

IngestSpec == IngestInit /\ [][IngestNext]_vars

\* ------------------------------------- the journal routes, one at a time

\* requests handled one after the other, delete_journal with every identity
\* and every id issued so far or not yet issued
OwnerNext ==
  \/ \E f \in FilePaths, a \in Audios : create_journal_save(1, f, a)
  \/ \E loads \in BOOLEAN : create_journal_transcribe(1, loads)
  \/ extract_begin(1)
  \/ \E resp \in AnalysisResponses : extract_end(1, resp)
  \/ polish_begin(1)
  \/ \E ok \in BOOLEAN, out \in PolishOutputs : polish_end(1, ok, out)
  \/ \E u \in Users, commitOk \in BOOLEAN : create_journal_persist(1, u, commitOk)
  \/ \E u \in Users, id \in 1..nextId, commitOk \in BOOLEAN : delete_journal(u, id, commitOk)
  \/ \E u \in Users : delete_current_user_account(u)

OwnerSpec == Init /\ [][OwnerNext]_vars

\* ----------------------------------- extract_moods / extract_topics alone

\* _analyse(text) run from entry to return, the chat completion answering resp
\* on a miss; `part` is 1 for extract_moods and 2 for extract_topics
_analyse(text, resp, part) ==
  /\ IF CacheHit(cache, text)
       THEN /\ call' = [text |-> text, part |-> IF part = 1 THEN "moods" ELSE "topics",
                        src |-> "cache", result |-> cache[text],
                        returned |-> cache[text][part]]
            /\ UNCHANGED <<cache, remoteOk>>
       ELSE LET outcome == IF apiConfigured THEN _call_openai_analysis(resp)
                           ELSE NotConfigured
                result  == AnalyseResult(text, outcome)
            IN  /\ cache' = CacheStore(cache, text, result)
                /\ remoteOk' = IF outcome.raised THEN remoteOk ELSE remoteOk \cup {text}
                /\ call' = [text |-> text, part |-> IF part = 1 THEN "moods" ELSE "topics",
                            src |-> IF outcome.raised THEN "heuristic" ELSE "remote",
                            result |-> result, returned |-> result[part]]
  /\ first' = IF text \in DOMAIN first THEN first ELSE Put(first, text, call'.result)
  /\ UNCHANGED <<apiConfigured, whisperInstalled, hook, heur, userCols, authResp, upd,
                 started, db, files, req>>

\* extract_moods(text): _analyse(text)[0]
extract_moods(text, resp) == _analyse(text, resp, 1)

\* extract_topics(text): _analyse(text)[1]
extract_topics(text, resp) == _analyse(text, resp, 2)

\* ------------------------------------------------ _keyword_fallback alone

\* the caller extends the argument by one piece
heur_extend(piece) ==
  /\ heur.pieces < MaxPieces
  /\ heur' = [NoHeur EXCEPT !.text = heur.text \o piece, !.pieces = heur.pieces + 1]
  /\ UNCHANGED <<apiConfigured, whisperInstalled, hook, call, first, userCols, authResp, upd,
                 started, db, files, cache, remoteOk, req>>

\* moods, topics = _keyword_fallback(text)
heur_call ==
  /\ ~heur.called
  /\ LET out == _keyword_fallback(heur.text) IN
       heur' = [heur EXCEPT !.called = TRUE, !.moods = out[1], !.topics = out[2]]
  /\ UNCHANGED <<apiConfigured, whisperInstalled, hook, call, first, userCols, authResp, upd,
                 started, db, files, cache, remoteOk, req>>

HeurNext ==
  \/ \E piece \in Pieces : heur_extend(piece)
  \/ heur_call

HeurSpec == Init /\ [][HeurNext]_vars

\* one caller at a time uses the two functions on texts of its choice
AnalyseNext ==
  \/ \E text \in AnalyseTexts, resp \in AnalysisResponses : extract_moods(text, resp)
  \/ \E text \in AnalyseTexts, resp \in AnalysisResponses : extract_topics(text, resp)

AnalyseSpec == Init /\ [][AnalyseNext]_vars

\* ------------------------------------- the first server's JWT hook

\* path segments of the requests that are sent
Segments ==
  { <<"l", "o", "g", "i", "n">>,
    <<"r", "e", "g", "i", "s", "t", "e", "r">>,
    <<"a", "p", "i", "d", "o", "c", "s">>,
    <<"s", "t", "a", "t", "i", "c">>,
    <<"u", "s", "e", "r", "s">>,
    <<"p", "r", "o", "c", "e", "s", "s", "_", "a", "u", "d", "i", "o">> }

\* open_paths of require_jwt, in routes.py (installed by jwt_protect) and in
\* datatest.py
open_paths(app) ==
  IF app = "routes"
    THEN << <<"/", "l", "o", "g", "i", "n">>,
            <<"/", "r", "e", "g", "i", "s", "t", "e", "r">>,
            <<"/">>,
            <<"/", "a", "p", "i", "d", "o", "c", "s">>,
            <<"/", "s", "w", "a", "g", "g", "e", "r", "_", "s", "t", "a", "t", "i", "c">>,
            <<"/", "s", "t", "a", "t", "i", "c">>,
            <<"/", "a", "p", "i", "s", "p", "e", "c", ".", "j", "s", "o", "n">> >>
    ELSE << <<"/", "l", "o", "g", "i", "n">>,
            <<"/", "r", "e", "g", "i", "s", "t", "e", "r">>,
            <<"/">>,
            <<"/", "a", "p", "i", "d", "o", "c", "s">>,
            <<"/", "s", "w", "a", "g", "g", "e", "r", "_", "s", "t", "a", "t", "i", "c">>,
            <<"/", "s", "t", "a", "t", "i", "c">> >>

\* str.startswith
StartsWith(s, prefix) ==
  Len(prefix) <= Len(s) /\ SubSeq(s, 1, Len(prefix)) = prefix

\* any(request.path.startswith(path) for path in open_paths)
HookOpen(app, path) ==
  \E i \in 1..Len(open_paths(app)) : StartsWith(path, open_paths(app)[i])

\* verify_jwt_in_request(): raises unless the request carries a valid JWT
verify_jwt_in_request(jwtValid) == [raised |-> ~jwtValid]

\* the client puts one more segment on the path of the request
hook_extend(seg) ==
  /\ ~hook.called
  /\ hook.segs < MaxSegments
  /\ hook' = [hook EXCEPT !.segs = @ + 1,
                          !.path = IF hook.segs = 0 THEN @ \o seg ELSE @ \o <<"/">> \o seg]
  /\ UNCHANGED <<apiConfigured, whisperInstalled, call, first, heur, userCols, authResp,
                 upd, started, db, files, cache, remoteOk, req>>

\* require_jwt() before the request with that path: return None (status 0,
\* the request goes on to its view) or the 401 answer
require_jwt(app, jwtValid) ==
  /\ ~hook.called
  /\ hook' =
       IF HookOpen(app, hook.path)
         THEN [hook EXCEPT !.called = TRUE, !.app = app, !.jwt = jwtValid]
       ELSE IF verify_jwt_in_request(jwtValid).raised
         THEN [hook EXCEPT !.called = TRUE, !.app = app, !.jwt = jwtValid,
                           !.verified = TRUE, !.status = 401,
                           !.error = "JWT token is missing or invalid"]
       ELSE [hook EXCEPT !.called = TRUE, !.app = app, !.jwt = jwtValid,
                         !.verified = TRUE]
  /\ UNCHANGED <<apiConfigured, whisperInstalled, call, first, heur, userCols, authResp,
                 upd, started, db, files, cache, remoteOk, req>>

HookNext ==
  \/ \E seg \in Segments : hook_extend(seg)
  \/ \E app \in {"routes", "datatest"}, jwtValid \in BOOLEAN : require_jwt(app, jwtValid)

HookSpec == Init /\ [][HookNext]_vars


\* ------------------------------------------------------------- claims

\* pipeline state of the request in slot r
Stage(r) ==
  CASE req[r].pc = "idle" -> "None"
    [] req[r].pc = "received" -> "Received"
    [] req[r].pc \in {"transcribed", "moods_wait", "moods_done", "topics_wait"} -> "Transcribed"
    [] req[r].pc \in {"analyzed", "polish_wait"} -> "Analyzed"
    [] req[r].pc = "polished" -> "Polished"
    [] req[r].pc = "done" /\ req[r].status = 201 -> "Complete"
    [] OTHER -> "Failed"

\* slot r is inside extract_moods or extract_topics
InExtract(r) ==
  req[r].pc \in {"transcribed", "moods_wait", "moods_done", "topics_wait"}

\* slot r returns from a call of _analyse in this step
AnalyseReturns(r) ==
  \/ req[r].pc \in {"transcribed", "moods_wait"} /\ req'[r].pc = "moods_done"
  \/ req[r].pc \in {"moods_done", "topics_wait"} /\ req'[r].pc = "analyzed"

\* ... and the call ended in the except branch
AnalyseFellBack(r) ==
  \/ req[r].pc \in {"transcribed", "moods_wait"} /\ req'[r].pc = "moods_done"
        /\ req'[r].srcM = "heuristic"
  \/ req[r].pc \in {"moods_done", "topics_wait"} /\ req'[r].pc = "analyzed"
        /\ req'[r].srcT = "heuristic"

\* C1: with the remote service configured, only successful remote results
\* are cached: a transcript whose remote analysis has never succeeded is not a
\* key of the cache, so a failed call leaves no heuristic result behind for
\* later ingests of the same text.
C1_FallbackNotCached == apiConfigured => \A t \in DOMAIN cache : t \in remoteOk

\* C2: the stages are passed in order, and a request that has its transcript
\* (it is in the analysis or in the polish step) never moves to Failed.  A
\* database error while the polished entry is stored is no failure of the
\* analysis or polish step and is left open here.
C2_FailedOnlyFromReceived ==
  [][\A r \in Reqs :
       /\ Stage(r)' # Stage(r) =>
            <<Stage(r), Stage(r)'>> \in
               {<<"None", "Received">>, <<"Complete", "Received">>, <<"Failed", "Received">>,
                <<"Received", "Transcribed">>, <<"Received", "Failed">>,
                <<"Transcribed", "Analyzed">>, <<"Analyzed", "Polished">>,
                <<"Polished", "Complete">>, <<"Polished", "Failed">>}
       /\ Stage(r) \in {"Transcribed", "Analyzed"} => Stage(r)' # "Failed"]_vars

\* C3: a remote polish request that was sent always ends with a polished
\* text, the stripped transcript when the request failed and the stripped
\* completion otherwise, and never with an error answer.
C3_PolishFailureFallsBack ==
  [][\A r \in Reqs :
       req[r].pc = "polish_wait" /\ req'[r] # req[r] =>
         /\ req'[r].pc = "polished"
         /\ req'[r].polished \in
              {Strip(req[r].transcript)} \cup {Strip(o) : o \in PolishOutputs}]_vars

\* C4: a call of _analyse whose remote request failed (not configured, raised,
\* unparseable or non-object response) returns the keyword fallback of its
\* transcript, and no step of extract_moods / extract_topics ends the
\* request in an error.
C4_FallbackOnFailure ==
  [][\A r \in Reqs :
       /\ InExtract(r) => req'[r].pc # "done"
       /\ AnalyseFellBack(r) =>
            /\ cache'[req[r].transcript] = FallbackOf[req[r].transcript]
            /\ req[r].pc \in {"transcribed", "moods_wait"} =>
                 req'[r].moods = FallbackOf[req[r].transcript][1]
            /\ req[r].pc \in {"moods_done", "topics_wait"} =>
                 req'[r].topics = FallbackOf[req[r].transcript][2]]_vars

\* C4 witness: with the service configured, a remote failure has produced a
\* non-empty heuristic mood list
C4_Witness ==
  \E r \in Reqs :
    /\ apiConfigured
    /\ req[r].pc = "moods_done"
    /\ req[r].srcM = "heuristic"
    /\ req[r].moods = FallbackOf[req[r].transcript][1]
    /\ Len(req[r].moods.items) > 0

\* C5: a value that is not a list of objects with a name is never the result
\* of the analysis step, neither in a request nor in the cache.
C5_NonConformingFallsBack ==
  /\ \A r \in Reqs :
       /\ req[r].moods # NoList => ~TagsRaise(req[r].moods)
       /\ req[r].topics # NoList => ~TagsRaise(req[r].topics)
  /\ \A t \in DOMAIN cache : ~TagsRaise(cache[t][1]) /\ ~TagsRaise(cache[t][2])

\* C6: an analysis of a transcript whose remote analysis has succeeded before
\* returns the cached pair, sends no remote request and leaves the cache alone.
C6_CacheHitShortCircuits ==
  [][\A r \in Reqs :
       req[r].pc \in {"transcribed", "moods_done"} /\ req'[r] # req[r]
          /\ req[r].transcript \in remoteOk =>
         /\ AnalyseReturns(r)
         /\ req'[r].nAnalysis = req[r].nAnalysis
         /\ cache' = cache
         /\ req[r].pc = "transcribed" => req'[r].moods = cache[req[r].transcript][1]
         /\ req[r].pc = "moods_done" => req'[r].topics = cache[req[r].transcript][2]]_vars

\* C6 witness: the second of two sequential requests took the moods of a
\* remotely analysed transcript from the cache without a remote request
C6_Witness ==
  /\ started = 2
  /\ req[2].pc = "idle"
  /\ req[1].pc = "moods_done"
  /\ req[1].srcM = "cache"
  /\ req[1].nAnalysis = 0
  /\ req[1].transcript \in remoteOk

\* C7: without whisper the transcription step never fails: it yields the
\* placeholder, every later step of the request works on the placeholder (it
\* is the only key the cache gets), and a journal stored without remote
\* polishing holds the placeholder.
C7_PlaceholderContinues ==
  [][~whisperInstalled =>
       /\ \A r \in Reqs :
            /\ req[r].pc = "received" /\ req'[r] # req[r] =>
                 req'[r].pc = "transcribed" /\ req'[r].transcript = Placeholder
            /\ req'[r].pc \notin {"idle", "received", "done"} =>
                 req'[r].transcript = Placeholder
       /\ DOMAIN cache' \subseteq {Placeholder}
       /\ ~apiConfigured => \A j \in journals' : j.content = Placeholder]_vars

\* C7 witness: without whisper an ingest has reached Complete and its journal
\* is stored
C7_Witness ==
  /\ ~whisperInstalled
  /\ \E r \in Reqs :
       /\ Stage(r) = "Complete"
       /\ \E j \in journals : j.id = req[r].jid /\ j.content = Placeholder

\* C8: the journal stored by a successful ingest, which is also what the
\* caller is sent, holds the raw transcript.
C8_RawTranscriptKept ==
  [][\A r \in Reqs :
       req[r].pc = "polished" /\ req'[r].status = 201 =>
         \E j \in journals' : j.id = req'[r].jid /\ j.content = req[r].transcript]_vars

\* C9: every stored confidence and relevance is absent or within [0, 1].
C9_ScoresInUnitInterval ==
  \A t \in moodRows \cup topicRows : t.hasScore => 0 <= t.score /\ t.score <= 100

\* C10: every tag row belongs to exactly one stored journal and every journal
\* to a stored user.
C10_ReferentialIntegrity ==
  /\ \A t \in moodRows \cup topicRows :
       Cardinality({j \in journals : j.id = t.journal_id}) = 1
  /\ \A j \in journals : j.user_id \in users

\* C11: a request sends at most one chat completion request for its analysis
\* (the second of its two _analyse calls finds the pair the first one stored)
\* and at most one polish request, whether they succeed or fail.
C11_NoRetry ==
  \A r \in Reqs : req[r].nAnalysis <= 1 /\ req[r].nPolish <= 1

\* C11 witness: a request whose analysis request failed has gone through
\* both extract calls and its polish request with one request of each kind
C11_Witness ==
  \E r \in Reqs :
    /\ req[r].pc = "polished"
    /\ req[r].srcM = "heuristic"
    /\ req[r].srcT = "cache"
    /\ req[r].nAnalysis = 1
    /\ req[r].nPolish = 1

\* the pairs one single call of _analyse on text t can produce
SingleResults(t) ==
  {AnalyseResult(t, _call_openai_analysis(resp)) : resp \in AnalysisResponses}
    \cup {AnalyseResult(t, NotConfigured)}

\* C13: under every interleaving the value stored for a transcript is a whole
\* (moods, topics) pair of one single analysis of that transcript.
C13_CacheNeverTorn ==
  \A t \in DOMAIN cache : cache[t] \in SingleResults(t)

\* C13 witness: two requests in flight analysed the same transcript with
\* different outcomes and both wrote the cache
C13_Witness ==
  /\ req[1].pc = "moods_done"
  /\ req[2].pc = "moods_done"
  /\ req[1].transcript = req[2].transcript
  /\ req[1].srcM = "remote"
  /\ req[2].srcM = "heuristic"
  /\ req[1].moods # req[2].moods
  /\ cache[req[1].transcript] \in SingleResults(req[1].transcript)

\* C12: run after run, every analysis of a text returns what the first
\* analysis of that text returned, moods and topics alike, whether that first
\* result came from the chat completion or from the keyword fallback.
C12_RerunReproduces ==
  call.part # "none" =>
    /\ call.result = first[call.text]
    /\ call.returned = first[call.text][IF call.part = "moods" THEN 1 ELSE 2]

\* C12 witness: a later run on a text whose first result was the fallback
\* (resp. the remote pair) got that result back from the cache
C12_Witness ==
  /\ call.src = "cache"
  /\ call.part = "topics"
  /\ call.result = FallbackOf[call.text]
  /\ \E t \in DOMAIN first : t # call.text /\ first[t] # FallbackOf[t]

\* C14: the pair stored under a text is what the cache holds for it right
\* after the store, and the next lookup of that text returns exactly it.
C14_CacheRoundTrip ==
  [][ /\ call'.src \in {"remote", "heuristic"} =>
           /\ CacheHit(cache', call'.text)
           /\ cache'[call'.text] = call'.result
      /\ (call.src \in {"remote", "heuristic"} /\ call'.text = call.text) =>
           /\ call'.src = "cache"
           /\ call'.result = call.result ]_vars

\* C14 witness: extract_topics has looked up the text whose pair the
\* preceding miss stored, and the two halves of the pair differ
C14_Witness ==
  /\ call.src = "cache"
  /\ call.part = "topics"
  /\ call.text \in remoteOk
  /\ call.result[1] # call.result[2]
  /\ DOMAIN cache = {call.text}

\* C18: a call is answered from the cache only when its very string is a
\* key, and a call with a string that is not a key runs its own analysis and
\* adds that string as a key, whatever strings equal to it up to case and
\* surrounding whitespace are keys already.
C18_ExactKey ==
  [][ /\ call'.src = "cache" =>
           /\ call'.text \in DOMAIN cache
           /\ call'.result = cache[call'.text]
           /\ cache' = cache
      /\ call'.text \notin DOMAIN cache =>
           /\ call'.src \in {"remote", "heuristic"}
           /\ DOMAIN cache' = DOMAIN cache \cup {call'.text} ]_vars

\* C18 witness: with "Mad" and "mad" both keys holding different pairs, a
\* call with " mad" was analysed on its own
C18_Witness ==
  /\ <<"M", "a", "d">> \in DOMAIN cache
  /\ <<"m", "a", "d">> \in DOMAIN cache
  /\ cache[<<"M", "a", "d">>] # cache[<<"m", "a", "d">>]
  /\ call.text = <<" ", "m", "a", "d">>
  /\ call.src = "remote"
  /\ call.result # cache[<<"m", "a", "d">>]

\* labels of `table` with a keyword occurring in the lower-cased text
Scoring(table, text) ==
  {i \in 1..Len(table) :
     \E k \in 1..Len(table[i].kws) : Contains(Lower(text), table[i].kws[k])}

\* `list` holds one entry per label of `table` with a keyword in the text, in
\* table order, whose score is the share of the label's keywords that occur
\* in the lower-cased text, to two decimals (scores are in hundredths)
ScoredAs(list, table, text) ==
  /\ list.k = "list"
  /\ Len(list.items) = Cardinality(Scoring(table, text))
  /\ \A a \in 1..Len(list.items) :
       \E i \in Scoring(table, text) :
         LET n     == Len(table[i].kws)
             count == Cardinality({k \in 1..n : Contains(Lower(text), table[i].kws[k])})
         IN  /\ list.items[a].name = table[i].name
             /\ Cardinality({j \in Scoring(table, text) : j < i}) = a - 1
             /\ list.items[a].score > 0
             /\ 2 * list.items[a].score * n <= 200 * count + n
             /\ 2 * list.items[a].score * n >= 200 * count - n

\* C15: for every argument, the empty string included, _keyword_fallback
\* returns two lists; a label is in its list exactly when one of its keywords
\* occurs in the lower-cased text, with the share of its keywords that occur
\* as its score.
C15_HeuristicScores ==
  heur.called =>
    /\ ScoredAs(heur.moods, _FALLBACK_MOODS, heur.text)
    /\ ScoredAs(heur.topics, _FALLBACK_TOPICS, heur.text)
    /\ (heur.text = <<>> => heur.moods.items = <<>> /\ heur.topics.items = <<>>)

\* C15 witness: a text in mixed case that scores two moods and a topic, the
\* topic with one keyword out of six
C15_Witness ==
  /\ heur.called
  /\ heur.pieces = 2
  /\ Len(heur.moods.items) = 2
  /\ Len(heur.topics.items) = 1
  /\ heur.topics.items[1].name = "family"
  /\ heur.topics.items[1].score = 17

\* C16: for "I am so happy about my new job" _keyword_fallback returns a mood
\* "happy" and a topic "work", each with a score above 0.
C16_HappyJobScenario ==
  (heur.called /\ heur.text = HappyJob) =>
    /\ \E a \in 1..Len(heur.moods.items) :
         heur.moods.items[a].name = "happy" /\ heur.moods.items[a].score > 0
    /\ \E a \in 1..Len(heur.topics.items) :
         heur.topics.items[a].name = "work" /\ heur.topics.items[a].score > 0

\* C19: for a journal of another user, get_journal and delete_journal answer
\* 404 'Journal not found', a delete_journal step changes no row and no file,
\* and get_journals does not list it; the row and the tags of a journal stay
\* as they were persisted until a step of its owner (delete_journal with a
\* commit, or deleting the account) removes them together.
C19_OwnerOnly ==
  [][ \A j \in journals :
        /\ \A u \in Users \ {j.user_id} :
             /\ get_journal(u, j.id) = NotFound
             /\ to_dict(j) \notin get_journals(u).journals
             /\ \A commitOk \in BOOLEAN :
                  /\ delete_journal_response(u, j.id, commitOk) = NotFound
                  /\ delete_journal(u, j.id, commitOk) =>
                       UNCHANGED <<journals, moodRows, topicRows, files>>
        /\ \/ /\ j \in journals'
              /\ {m \in moodRows' : m.journal_id = j.id} = to_dict(j).moods
              /\ {t \in topicRows' : t.journal_id = j.id} = to_dict(j).topics
           \/ /\ \/ delete_journal(j.user_id, j.id, TRUE)
                 \/ delete_current_user_account(j.user_id)
              /\ \A x \in journals' : x.id # j.id
              /\ \A m \in moodRows' : m.journal_id # j.id
              /\ \A t \in topicRows' : t.journal_id # j.id ]_vars

\* C19 witness: a journal with tags whose owner gets it and another
\* registered user does not, while that user has a journal too
C19_Witness ==
  \E j \in journals : \E u \in users \ {j.user_id} :
    /\ j.user_id \in users
    /\ to_dict(j).moods # {}
    /\ get_journal(j.user_id, j.id).status = 200
    /\ get_journal(u, j.id).status = 404
    /\ get_journals(u).journals # {}

\* C20: a register request with all three fields whose email does not match
\* the email format, or whose password fails a requirement of
\* validate_password, is answered with 400, without a token and without a
\* new row in table users.
C20_InvalidRegistrationRejected ==
  ( /\ authResp.op = "register"
    /\ authResp.error # "Missing required fields"
    /\ \/ ~validate_email(authResp.email)[1]
       \/ ~validate_password(authResp.password)[1] )
  => /\ authResp.status = 400
     /\ authResp.token = 0
     /\ \A u \in users : userCols[u].email # authResp.email

\* C29: a login request with both fields gets a token exactly when a user
\* with that email exists and the password verifies against the user's hash,
\* and is answered with 401 'Invalid email or password' otherwise, also for
\* an account without a password hash; login changes no row of table users.
C29_LoginOnlyWithPassword ==
  ( /\ authResp.op = "login"
    /\ authResp.error # "Missing email or password" )
  => /\ users = Users
     /\ userCols = [u \in Users |-> IF u = 1 THEN SeededCols ELSE GoogleCols(u)]
     /\ IF \E u \in users : /\ userCols[u].email = authResp.email
                            /\ userCols[u].password_hash = Hash(authResp.password)
          THEN /\ authResp.status = 200
               /\ authResp.token \in users
               /\ userCols[authResp.token].email = authResp.email
          ELSE /\ authResp.status = 401
               /\ authResp.error = "Invalid email or password"
               /\ authResp.token = 0

\* no two rows of table users have the same username or the same email
UniqueUsers ==
  \A u \in users : \A v \in users \ {u} :
    /\ userCols[u].username # userCols[v].username
    /\ userCols[u].email # userCols[v].email

\* the username or the email asked for belongs to another user's row
Taken(u, username, email) ==
  \E v \in users \ {u} :
    userCols[v].username = username \/ userCols[v].email = email

\* C21: whatever the interleaving of register and update requests, usernames
\* and emails stay unique among the rows of table users (a commit that would
\* break this is rolled back), and a register or update request asking for
\* a username or email of another row is answered with 409 and changes no row.
C21_UniqueUsernamesEmails ==
  [][ /\ UniqueUsers'
      /\ \A u \in users, username \in UpdNames, email \in UpdEmails, pw \in UpdPasswords :
           ( /\ Taken(u, username, email)
             /\ update_begin(u, UpdData(username, email, pw)) )
           => /\ authResp'.status = 409
              /\ userCols' = userCols
              /\ upd' = upd
      /\ \A username \in Usernames, email \in LoginEmails, commitOk \in BOOLEAN :
           ( /\ Taken(0, username, email)
             /\ register([username |-> username, email |-> email,
                          password |-> <<"A", "b", "c", "d", "e", "f", "1", "!">>],
                         TRUE, commitOk) )
           => /\ authResp'.status = 409
              /\ userCols' = userCols
              /\ users' = users ]_vars

\* C21 witness: one user has taken the username "z" and the commit of an
\* update asking for "z" was rolled back
C21_Witness ==
  /\ \E u \in users : userCols[u].username = <<"z">>
  /\ authResp.op = "update"
  /\ authResp.status = 500
  /\ authResp.username = <<"z">>
  /\ \E u \in users : userCols[u].username # <<"z">> /\ ~upd[u].active

\* C22: the password hash of a row changes only by the commit of an update
\* whose current_password verified against the row's hash, and an update
\* answered with 400 or 409 leaves every row as it was, the username it had
\* accepted before the failing check included.
C22_FailedUpdatePersistsNothing ==
  [][ \A u \in users :
        /\ userCols'[u].password_hash # userCols[u].password_hash =>
             /\ upd[u].active
             /\ upd[u].current # Missing
             /\ check_password(userCols[u].password_hash, upd[u].current).ok
             /\ userCols'[u] = upd[u].row
        /\ \A username \in UpdNames, email \in UpdEmails, pw \in UpdPasswords :
             ( /\ update_begin(u, UpdData(username, email, pw))
               /\ upd' = upd
               /\ authResp'.status \in {400, 409} )
             => userCols' = userCols ]_vars

\* C22 witness: an update that asked for the free username "z" and a taken
\* email was answered with 409 and "z" is nobody's username, in a state where
\* an earlier update has changed a password
C22_Witness ==
  /\ authResp.op = "update"
  /\ authResp.status = 409
  /\ authResp.error = "Email already registered"
  /\ authResp.username = <<"z">>
  /\ \A u \in users : userCols[u].username # <<"z">>
  /\ \E u \in users :
       userCols[u].password_hash = Hash(<<"N", "e", "w", "p", "a", "s", "s", "1", "!">>)

\* forms that pass the four checks
ValidForm(hasAudio, title, filename) ==
  /\ hasAudio
  /\ title = <<" ", "T", " ">>
  /\ filename \in {<<"a", ".", "w", "a", "v">>, <<"A", ".", "W", "A", "V">>}

\* C23: a create_journal request without an 'audio' part, with an empty or
\* blank title, an empty filename or a filename without one of the four
\* extensions is answered with 400 and the message of the first of these
\* that applies, and changes no file, no row, no cache entry; it transcribes
\* nothing and sends no remote request.
C23_InvalidUploadRejected ==
  [][ \A hasAudio \in BOOLEAN, title \in Titles, filename \in Filenames :
        ( /\ ~ValidForm(hasAudio, title, filename)
          /\ create_journal(1, hasAudio, title, filename, 1) )
        => /\ req'[1].pc = "done"
           /\ req'[1].status = 400
           /\ req'[1].error =
                IF ~hasAudio THEN "No audio file provided"
                ELSE IF title # <<" ", "T", " ">> THEN "Title is required"
                ELSE IF filename = <<>> THEN "No selected file"
                ELSE "File type not allowed"
           /\ req'[1].transcript = NoText
           /\ req'[1].nAnalysis = 0 /\ req'[1].nPolish = 0
           /\ UNCHANGED <<files, users, journals, moodRows, topicRows, nextId,
                          cache, remoteOk, started>> ]_vars

\* C23 witness: with a journal persisted and its file in the upload folder,
\* a request was turned down for its file type
C23_Witness ==
  /\ req[1].pc = "done"
  /\ req[1].status = 400
  /\ req[1].error = "File type not allowed"
  /\ journals # {}
  /\ moodRows # {}
  /\ DOMAIN files # {}
  /\ DOMAIN cache # {}

\* C24: under every interleaving, the moods and the topics a request goes on
\* to persist are the two halves of one single analysis of its transcript.
C24_MoodsTopicsOfOneAnalysis ==
  \A r \in Reqs :
    req[r].pc \in {"analyzed", "polish_wait", "polished"} =>
      <<req[r].moods, req[r].topics>> \in SingleResults(req[r].transcript)

\* C25: after any sequence of create_journal and delete_journal requests,
\* the audio_path of every persisted journal names a file that exists in the
\* upload folder.
C25_AudioFileKept ==
  \A j \in journals : j.audio_path \in DOMAIN files

\* C26: create_journal persists atomically.  A step of a request in flight
\* that answers 201 adds the journal row of the request and one row per
\* returned mood and per returned topic and nothing else; every other step of
\* a request in flight leaves the three tables as they were, and when it
\* answers, it answers 500; a polish request that raises, a tag list that
\* cannot be turned into rows and a commit that raises are answered with 500.
C26_PersistAtomic ==
  [][ \A r \in Reqs :
        /\ (~Free(r) /\ req'[r] # req[r]) =>
             IF req'[r].pc = "done" /\ req'[r].status = 201
               THEN /\ journals \subseteq journals'
                    /\ Cardinality(journals' \ journals) = 1
                    /\ \A j \in journals' \ journals :
                         /\ j.id = req'[r].jid
                         /\ j.content = req[r].polished
                         /\ j.audio_path = req[r].file
                    /\ moodRows \subseteq moodRows'
                    /\ topicRows \subseteq topicRows'
                    /\ \A m \in moodRows' \ moodRows : m.journal_id = req'[r].jid
                    /\ \A t \in topicRows' \ topicRows : t.journal_id = req'[r].jid
                    /\ Cardinality(moodRows' \ moodRows) = Len(req[r].moods.items)
                    /\ Cardinality(topicRows' \ topicRows) = Len(req[r].topics.items)
               ELSE /\ UNCHANGED <<journals, moodRows, topicRows, nextId>>
                    /\ req'[r].pc = "done" => req'[r].status = 500
        /\ \A out \in PolishOutputs :
             polish_end(r, FALSE, out) => req'[r].pc = "done" /\ req'[r].status = 500
        /\ \A u \in Users :
             create_journal_persist(r, u, FALSE) => req'[r].pc = "done" /\ req'[r].status = 500
        /\ ( /\ req[r].pc = "polished" /\ req'[r] # req[r]
             /\ TagsRaise(req[r].moods) \/ TagsRaise(req[r].topics) )
             => req'[r].pc = "done" /\ req'[r].status = 500 ]_vars

\* C26 witness: of two requests in flight together one was answered 201 and
\* its journal and tag rows are the only rows, the other was answered 500
C26_Witness ==
  /\ req[1].pc = "done" /\ req[1].status = 201
  /\ req[2].pc = "done" /\ req[2].status = 500
  /\ \A j \in journals : j.id = req[1].jid
  /\ journals # {}
  /\ \E m \in moodRows : m.journal_id = req[1].jid
  /\ \E t \in topicRows : t.journal_id = req[1].jid

\* C27: in sequential use the cache only grows and is stable: no call removes
\* a key, no call replaces the pair stored for a text, and a call on a text
\* that has a stored pair returns that pair.
C27_CacheGrowsStable ==
  [][ /\ DOMAIN cache \subseteq DOMAIN cache'
      /\ \A t \in DOMAIN cache : cache'[t] = cache[t]
      /\ call'.text \in DOMAIN cache =>
           /\ call'.src = "cache"
           /\ call'.result = cache[call'.text]
           /\ call'.returned = cache[call'.text][IF call'.part = "moods" THEN 1 ELSE 2] ]_vars

\* C27 witness: the cache holds a pair for every text, a fallback pair and a
\* remote pair among them, and the last call was answered from it
C27_Witness ==
  /\ DOMAIN cache = AnalyseTexts
  /\ \E t \in DOMAIN cache : cache[t] = FallbackOf[t]
  /\ \E t \in DOMAIN cache : t \in remoteOk /\ cache[t] # FallbackOf[t]
  /\ call.src = "cache"

\* the open endpoints: the root page, and the paths under login, register,
\* the API docs and the static files
OpenEndpoint(app, path) ==
  \/ path = <<"/">>
  \/ \E i \in 1..Len(open_paths(app)) :
       open_paths(app)[i] # <<"/">> /\ StartsWith(path, open_paths(app)[i])

\* C28: the hook lets a request through without verifying a JWT only when
\* its path is an open endpoint, and answers a request to any other path that
\* carries no valid JWT with 401 'JWT token is missing or invalid'.
C28_HookGuardsClosedPaths ==
  hook.called =>
    /\ (~hook.verified /\ hook.status = 0) => OpenEndpoint(hook.app, hook.path)
    /\ (~OpenEndpoint(hook.app, hook.path) /\ ~hook.jwt) =>
         /\ hook.status = 401
         /\ hook.error = "JWT token is missing or invalid"

====
